---- MODULE Spec2Model ----
(***************************************************************************)
(* SilkRoad: a data feed, a strategy, a risk gate and an execution engine  *)
(* (paper, IBKR) or a backtest bridge, wired from a YAML configuration.    *)
(*                                                                         *)
(* Numbers.  Fractions of equity (Signal.size, max_position_fraction,      *)
(* max_drawdown, the target handed to the broker) are integers in          *)
(* hundredths: 0.1 is 10 and 1.0 is 100.  Prices are even integers and the *)
(* moving-average windows are 1 or 2, so every rolling mean is an exact    *)
(* integer.  A float that may be NaN or absent is a tagged record.         *)
(***************************************************************************)
EXTENDS Integers, Sequences, FiniteSets, TLC

VARIABLES
    mode,           \* which loop runs: "paper", "ibkr" or "backtest"
    pc,             \* position of the run: "init", "streaming", "done"
    feed,           \* the data feed: [kind, data], data a sequence of rows; kind "none": no feed
    strategy,       \* the strategy object: kind and MomentumStrategy's fields
    limits,         \* RiskManager.limits
    hasAnalytics,   \* whether an AnalyticsStore is attached
    prepared,       \* the frame strategy.prepare was last applied to
    polls,          \* snapshots (or bars) handed to generate_signal so far
    snapshot,       \* the history of the last MarketSnapshot given to generate_signal
    signal,         \* the last Signal returned by generate_signal
    verdict,        \* what happened to it: "none", "blocked", "executed", "skipped"
    targets,        \* target fractions handed to the broker, in order
    trades,         \* rows of the trades table, in order
    notes,          \* notifications sent, in order
    equity,         \* account value reported by the broker
    peak,           \* highest account value seen so far
    halted,         \* the drawdown has exceeded limits.max_drawdown at some step
    hasRisk,        \* whether a RiskManager is attached (the bridge may have none)
    connected,      \* IB.isConnected()
    position,       \* shares of the symbol held at IB
    orders,         \* market orders placed at IB, in order
    sleeps,         \* calls of ib.sleep(poll_interval)
    btConfig,       \* BacktestEngine.config: enabled and starting_cash
    outcome,        \* the last call made from outside: what it was and how it ended
    result,         \* the BacktestResult returned by the last backtest
    file,           \* what is at the configuration path
    registry,       \* STRATEGY_REGISTRY and EXECUTION_REGISTRY
    registered,     \* per name, the factory of the latest register_* call
    config,         \* the AppConfig returned by the last load_config
    app,            \* the SilkRoadApp returned by from_file
    built,          \* the object constructed by the last build call
    perf,           \* rows of the performance table, in order
    runs,           \* run ids drawn by uuid4 so far
    btOrders,       \* orders the backtest broker holds, with the last status notified
    loads           \* calls of data_feed.load_history()

runVars == << mode, pc, feed, strategy, limits, hasAnalytics, hasRisk, prepared, polls,
              snapshot, signal, verdict, targets, trades, notes, equity, peak, halted,
              connected, position, orders, sleeps >>

cfgVars == << file, registry, registered, config, app, built >>
appVars == << cfgVars, btConfig >>
resVars == << outcome, result >>

extVars == << perf, runs, btOrders, loads >>

vars == << runVars, appVars, resVars, extVars >>

-----------------------------------------------------------------------------
\* Bounds of the model.

\* Rows of history a feed starts with, and the feed's lookback.
MaxHistory == 2

\* Snapshots a polling feed is followed for.
MaxPolls == 2

\* Partial fills one order of the backtest broker may have.
MaxPartials == 1

\* Backtests that return a result, one after the other on one engine.
MaxRuns == 2

-----------------------------------------------------------------------------
\* Program constants.

\* 1.0, the cap of a target fraction.
FullFraction == 100

\* RiskLimits defaults.
DefaultMaxPositionFraction == 10
DefaultMaxDrawdown == 20
DefaultStopLossPct == 5

-----------------------------------------------------------------------------
\* Values.

Num(v) == [k |-> "num", v |-> v]
NaN == [k |-> "nan", v |-> 0]
None == [k |-> "none", v |-> 0]

\* pd.isna
IsNa(x) == x.k \in {"nan", "none"}

\* Float comparison: any comparison with NaN is False.
Gt(x, y) == x.k = "num" /\ y.k = "num" /\ x.v > y.v
Lt(x, y) == x.k = "num" /\ y.k = "num" /\ x.v < y.v

Min(a, b) == IF a < b THEN a ELSE b
Max(a, b) == IF a > b THEN a ELSE b
Abs(a) == IF a < 0 THEN -a ELSE a

Prices == {2, 4}
Thresholds == {0, 1}
OrderSizes == {-150, 10, 20, 150}
Sides == {"buy", "sell", "hold"}
EquityLevels == {60, 100}

RECURSIVE SumRange(_, _, _)
SumRange(closes, lo, hi) ==
    IF lo > hi THEN 0 ELSE closes[hi] + SumRange(closes, lo, hi - 1)

\* Series.rolling(w).mean() at row i: NaN until w rows exist.
RollingMean(closes, i, w) ==
    IF i < w THEN NaN ELSE Num(SumRange(closes, i - w + 1, i) \div w)

Sub(x, y) == IF x.k = "num" /\ y.k = "num" THEN Num(x.v - y.v) ELSE NaN

Closes(frame) == [i \in 1..Len(frame) |-> frame[i].close]

RawRow(p) == [close |-> p]
RawFrames(n) == UNION { [1..m -> {RawRow(p) : p \in Prices}] : m \in 1..n }

\* Series.get(column): None when the row has no such column.
Get(row, col) == IF col \in DOMAIN row THEN row[col] ELSE None

-----------------------------------------------------------------------------
\* MomentumStrategy.

\* prepare mutates the frame it is given: three new columns.
Prepare(st, frame) ==
    IF st.kind # "momentum" THEN frame
    ELSE [i \in 1..Len(frame) |->
            LET fast == RollingMean(Closes(frame), i, st.fast_window)
                slow == RollingMean(Closes(frame), i, st.slow_window)
            IN  [close |-> frame[i].close, fast_ma |-> fast, slow_ma |-> slow,
                 spread |-> Sub(fast, slow)]]

MomentumStrategy(fast, slow, thr, osz) ==
    [kind |-> "momentum", name |-> "momentum", fast_window |-> fast,
     slow_window |-> slow, threshold |-> thr, order_size |-> osz]

OtherStrategy(osz) ==
    [kind |-> "other", name |-> "other", fast_window |-> 0, slow_window |-> 0,
     threshold |-> 0, order_size |-> osz]

Signal(side, size, reason) == [side |-> side, size |-> size, reason |-> reason]

NoSignal == Signal("none", 0, "")

\* generate_signal with the sell test against threshold instead of -threshold.
generate_signal_SellAtThreshold(st, history) ==
    LET latest == history[Len(history)]
        spread == Get(latest, "spread")
    IN  IF IsNa(spread) THEN Signal("hold", 0, "spread-not-computed")
        ELSE IF Gt(spread, Num(st.threshold)) THEN Signal("buy", st.order_size, "")
        ELSE IF Lt(spread, Num(st.threshold)) THEN Signal("sell", st.order_size, "")
        ELSE Signal("hold", 0, "")

generate_signal(st, history) ==
    LET latest == history[Len(history)]
        spread == Get(latest, "spread")
    IN  IF IsNa(spread) THEN Signal("hold", 0, "spread-not-computed")
        ELSE IF Gt(spread, Num(st.threshold)) THEN Signal("buy", st.order_size, "")
        ELSE IF Lt(spread, Num(-st.threshold)) THEN Signal("sell", st.order_size, "")
        ELSE Signal("hold", 0, "")

\* The signals a strategy may return for a snapshot.  Strategy.generate_signal
\* is abstract: a strategy other than MomentumStrategy decides the side as it
\* likes, here with its own order_size for a buy or a sell and 0 for a hold.
Signals(st, history) ==
    IF st.kind = "momentum" THEN {generate_signal(st, history)}
    ELSE {Signal("buy", st.order_size, ""), Signal("sell", st.order_size, ""),
          Signal("hold", 0, "")}

-----------------------------------------------------------------------------
\* RiskManager.

RiskLimits(mpf, mdd, slp) ==
    [max_position_fraction |-> mpf, max_drawdown |-> mdd, stop_loss_pct |-> slp]

\* validate rejecting a size equal to the limit.
validate_RejectsEqual(lim, sig) ==
    IF sig.size >= lim.max_position_fraction THEN FALSE ELSE TRUE

validate(lim, sig) ==
    IF sig.size > lim.max_position_fraction THEN FALSE ELSE TRUE

\* The gate with the "not" lost.
RiskBlocks_Inverted(has, lim, sig) == has /\ validate(lim, sig)

\* The gate of the three loops: "if self.risk_manager and not validate(signal)".
RiskBlocks(has, lim, sig) == has /\ ~validate(lim, sig)

\* (peak - equity) / peak > max_drawdown
DrawdownExceeded(lim, pk, eq) == (pk - eq) * FullFraction > lim.max_drawdown * pk

-----------------------------------------------------------------------------
\* Data feeds.

Lookback == MaxHistory

\* DataFrame.drop_duplicates(): a row equal in every column to an earlier row
\* is dropped (the index is not compared).
DropDuplicates(frame) ==
    LET keep == {i \in 1..Len(frame) : \A j \in 1..(i - 1) : frame[j] # frame[i]}
        F[i \in 0..Len(frame)] ==
            IF i = 0 THEN << >>
            ELSE IF i \in keep THEN Append(F[i - 1], frame[i]) ELSE F[i - 1]
    IN  F[Len(frame)]

\* frame.iloc[-n:]
Tail_n(frame, n) ==
    IF Len(frame) <= n THEN frame ELSE SubSeq(frame, Len(frame) - n + 1, Len(frame))

\* CCXTFeed.stream after a yield: the two latest candles are fetched (the last
\* one already held and the one after it), appended, duplicates dropped and the
\* window cut to lookback rows.
Polled(data) ==
    { Tail_n(DropDuplicates(data \o << data[Len(data)], RawRow(b) >>), Lookback) :
        b \in Prices }

\* The histories the next MarketSnapshot of stream() may hold, after n earlier
\* snapshots; the empty set when the stream is exhausted.
StreamNext(fd, n) ==
    IF fd.kind = "static" THEN (IF n = 0 THEN {fd.data} ELSE {})
    ELSE IF n = 0 THEN {fd.data}
    ELSE IF n < MaxPolls THEN Polled(fd.data)
    ELSE {}

\* The close of the first row instead of the last.
LastClose_First(history) == history[1].close

\* snapshot.history().iloc[-1]["close"]
LastClose(history) == history[Len(history)].close

-----------------------------------------------------------------------------
\* Records written and messages sent.

\* A dict of keyword arguments is a function from its keys.
EmptyDict == [k \in {} |-> ""]

\* quantity and price are floats: Num(v) or NaN.
TradeRecord(source, side, quantity, price) ==
    [source |-> source, side |-> side, quantity |-> quantity, price |-> price]

\* metadata is a dict, empty when none is given.
PerformanceRecord(run_id, timestamp, metric, value, metadata) ==
    [run_id |-> run_id, timestamp |-> timestamp, metric |-> metric, value |-> value,
     metadata |-> metadata]

-----------------------------------------------------------------------------
\* AnalyticsStore.

\* id INTEGER PRIMARY KEY AUTOINCREMENT: one more than the largest id of the
\* table (rows are never deleted, so no larger id was ever given).
NextId(table) ==
    LET ids == {table[i].id : i \in 1..Len(table)}
    IN  IF ids = {} THEN 1 ELSE (CHOOSE m \in ids : \A k \in ids : k <= m) + 1

\* A REAL NOT NULL column takes a number: sqlite3 binds None and NaN as NULL.
NotNull(x) == x.k = "num"

\* CREATE TABLE IF NOT EXISTS: an existing table keeps its rows, a missing one
\* (no rows) is created empty.
CreateTableIfNotExists(table) == table

\* An insert that replaces the last row instead of adding one.
log_trade_Replace(table, record) ==
    IF NotNull(record.quantity) /\ NotNull(record.price)
    THEN [result |-> "ok",
          table |-> IF table = << >>
                    THEN << [id |-> 1, source |-> record.source, side |-> record.side,
                             quantity |-> record.quantity, price |-> record.price] >>
                    ELSE [table EXCEPT ![Len(table)] =
                            [id |-> @.id, source |-> record.source, side |-> record.side,
                             quantity |-> record.quantity, price |-> record.price]]]
    ELSE [result |-> "IntegrityError", table |-> table]

\* log_trade(record): INSERT INTO trades, commit; the insert fails on a NULL.
log_trade(table, record) ==
    IF NotNull(record.quantity) /\ NotNull(record.price)
    THEN [result |-> "ok",
          table |-> Append(table,
                      [id |-> NextId(table), source |-> record.source,
                       side |-> record.side, quantity |-> record.quantity,
                       price |-> record.price])]
    ELSE [result |-> "IntegrityError", table |-> table]

\* The metadata column: json.dumps(metadata) "if record.metadata", else NULL.
MetadataJson(metadata) ==
    IF metadata = EmptyDict THEN [k |-> "null", v |-> EmptyDict]
    ELSE [k |-> "json", v |-> metadata]

\* log_performance(record): INSERT INTO performance, commit.
log_performance(table, record) ==
    IF NotNull(record.value)
    THEN [result |-> "ok",
          table |-> Append(table,
                      [id |-> NextId(table), run_id |-> record.run_id,
                       timestamp |-> record.timestamp, metric |-> record.metric,
                       value |-> record.value,
                       metadata |-> MetadataJson(record.metadata)])]
    ELSE [result |-> "IntegrityError", table |-> table]

Note(kind, side) == [kind |-> kind, side |-> side]

\* How a call ended: "ok" or the exception type it raised; args are the keyword
\* arguments it was given.
Outcome(op, res, args) == [op |-> op, result |-> res, args |-> args]
NoOutcome == Outcome("none", "none", EmptyDict)

\* sharpe_ratio is a float or None; run_id and completed_at are those of the run.
BacktestResult(name, cash, ending, ret, sharpe, run_id, completed_at) ==
    [strategy_name |-> name, starting_cash |-> cash, ending_value |-> ending,
     total_return |-> ret, sharpe_ratio |-> sharpe, run_id |-> run_id,
     completed_at |-> completed_at]
NoResult == BacktestResult("", 0, 0, 0, None, 0, 0)

BacktestConfig(enabled, cash) == [enabled |-> enabled, starting_cash |-> cash]
NoBacktest == BacktestConfig(FALSE, 0)

StartingCashes == {0, 100}
BacktestConfigs ==
    {BacktestConfig(TRUE, c) : c \in StartingCashes} \cup {BacktestConfig(FALSE, 100)}

\* The account values a backtest may pass through: with no cash nothing can be
\* bought, and the value stays 0.
EquityMoves(cash) == IF cash = 0 THEN {0} ELSE EquityLevels

\* The broker's account value moves between two steps of a loop.
Account(eq) ==
    /\ equity' = eq
    /\ peak' = Max(peak, eq)
    /\ halted' = (halted \/ DrawdownExceeded(limits, Max(peak, eq), eq))

ibVars == << connected, position, orders, sleeps >>
acctVars == << equity, peak, halted >>
setupVars == << mode, feed, strategy, limits, hasAnalytics, hasRisk >>

-----------------------------------------------------------------------------
\* PaperTradingEngine.

\* run, up to the loop: load_history, then prepare on a copy of it.
PaperStart ==
    /\ mode = "paper" /\ pc = "init"
    /\ prepared' = Prepare(strategy, feed.data)
    /\ pc' = "streaming"
    /\ loads' = loads + 1
    /\ UNCHANGED << setupVars, polls, snapshot, signal, verdict, targets, trades,
                    notes, acctVars, ibVars >>
    /\ UNCHANGED << appVars, resVars, perf, runs, btOrders >>

\* execute(signal, price)
PaperExecute(sig, price) ==
    /\ notes' = Append(notes, Note("paper", sig.side))
    /\ trades' = IF hasAnalytics
                 THEN log_trade(trades, TradeRecord("paper", sig.side, Num(sig.size),
                                                    Num(price))).table
                 ELSE trades

\* One iteration of the loop of run.
PaperStep ==
    /\ mode = "paper" /\ pc = "streaming"
    /\ \E h \in StreamNext(feed, polls) : \E sig \in Signals(strategy, h) :
        /\ feed' = [feed EXCEPT !.data = h]
        /\ polls' = polls + 1
        /\ snapshot' = h
        /\ signal' = sig
        /\ IF RiskBlocks(hasRisk, limits, sig)
           THEN /\ notes' = Append(notes, Note("risk-blocked", sig.side))
                /\ verdict' = "blocked"
                /\ UNCHANGED trades
           ELSE /\ PaperExecute(sig, LastClose(h))
                /\ verdict' = "executed"
    /\ UNCHANGED << mode, strategy, limits, hasAnalytics, hasRisk, pc, prepared,
                    targets, acctVars, ibVars >>
    /\ UNCHANGED << appVars, resVars, extVars >>

\* The stream is exhausted: run returns.
PaperFinish ==
    /\ mode = "paper" /\ pc = "streaming"
    /\ feed.kind = "static" /\ polls >= 1
    /\ pc' = "done"
    /\ UNCHANGED << setupVars, prepared, polls, snapshot, signal, verdict, targets,
                    trades, notes, acctVars, ibVars >>
    /\ UNCHANGED << appVars, resVars, extVars >>

-----------------------------------------------------------------------------
\* IBKRExecutionEngine.

\* Rounding to nearest with ties away from the lower integer.
RoundHalfEven_HalfUp(n, d) ==
    LET q == n \div d
        r == n - q * d
    IN  IF 2 * r < d THEN q ELSE q + 1

\* Python's round() of the fraction n / d, d > 0: to nearest, ties to even.
RoundHalfEven(n, d) ==
    LET q == n \div d
        r == n - q * d
    IN  IF 2 * r < d THEN q
        ELSE IF 2 * r > d THEN q + 1
        ELSE IF q % 2 = 0 THEN q ELSE q + 1

\* target_percent of execute: the signed size, clamped to [-1.0, 1.0].
TargetPercent(sig) ==
    LET signed == IF sig.side = "buy" THEN sig.size ELSE -sig.size
    IN  Max(-FullFraction, Min(FullFraction, signed))

\* delta = account_value * target_percent / price - current_position, as the
\* fraction DeltaNum / DeltaDen.
DeltaNum(sig, price) == equity' * TargetPercent(sig) - position * FullFraction * price
DeltaDen(price) == FullFraction * price

MarketOrder(side, quantity) == [side |-> side, quantity |-> quantity]

\* execute(signal, price) with a price given; filled: whether the finished
\* trade carries a fill (one fill of the whole quantity) or none.
IBKRExecute(sig, price, filled) ==
    LET quantity == Abs(RoundHalfEven(DeltaNum(sig, price), DeltaDen(price)))
        order_side == IF DeltaNum(sig, price) > 0 THEN "BUY" ELSE "SELL"
    IN  IF sig.side = "hold"
        THEN UNCHANGED << targets, orders, position, notes, trades, connected >>
        ELSE /\ connected' = TRUE
             /\ targets' = Append(targets, TargetPercent(sig))
             /\ IF DeltaNum(sig, price) = 0 \/ quantity = 0
                THEN UNCHANGED << orders, position, notes, trades >>
                ELSE /\ orders' = Append(orders, MarketOrder(order_side, quantity))
                     /\ notes' = Append(notes, Note("ibkr-order", order_side))
                     /\ position' = IF ~filled THEN position
                                    ELSE IF order_side = "BUY" THEN position + quantity
                                    ELSE position - quantity
                     /\ trades' = IF hasAnalytics /\ filled
                                  THEN log_trade(trades, TradeRecord("ibkr",
                                         IF order_side = "BUY" THEN "buy" ELSE "sell",
                                         Num(quantity), Num(price))).table
                                  ELSE trades

\* The calls of run before its try block that may raise.
StartFaults == {"none", "load_history", "prepare"}

\* run, up to the loop: connect; RuntimeError when there is no data feed;
\* load_history, then prepare on a copy of the history.  An exception of
\* load_history or prepare leaves run at once: the try block is not entered.
IBKRStart ==
    /\ mode = "ibkr" /\ pc = "init"
    /\ connected' = TRUE
    /\ IF feed.kind = "none"
       THEN /\ pc' = "done"
            /\ outcome' = Outcome("run", "RuntimeError", EmptyDict)
            /\ UNCHANGED << prepared, loads >>
       ELSE \E fault \in StartFaults :
            /\ loads' = loads + 1
            /\ IF fault = "none"
               THEN /\ prepared' = Prepare(strategy, feed.data)
                    /\ pc' = "streaming"
                    /\ UNCHANGED outcome
               ELSE /\ pc' = "done"
                    /\ outcome' = Outcome("run", "Exception", [raised |-> fault])
                    /\ UNCHANGED prepared
    /\ UNCHANGED << setupVars, polls, snapshot, signal, verdict, targets, trades,
                    notes, acctVars, position, orders, sleeps >>
    /\ UNCHANGED << appVars, result, perf, runs, btOrders >>

\* One iteration of the loop of run.
IBKRStep ==
    /\ mode = "ibkr" /\ pc = "streaming"
    /\ \E h \in StreamNext(feed, polls) : \E sig \in Signals(strategy, h) :
       \E eq \in EquityLevels : \E filled \in BOOLEAN :
        /\ feed' = [feed EXCEPT !.data = h]
        /\ polls' = polls + 1
        /\ snapshot' = h
        /\ signal' = sig
        /\ Account(eq)
        /\ IF RiskBlocks(hasRisk, limits, sig)
           THEN /\ notes' = Append(notes, Note("ibkr-blocked", sig.side))
                /\ verdict' = "blocked"
                /\ UNCHANGED << targets, trades, connected, position, orders, sleeps >>
           ELSE /\ IBKRExecute(sig, LastClose(h), filled)
                /\ verdict' = "executed"
                /\ sleeps' = sleeps + 1
    /\ UNCHANGED << mode, strategy, limits, hasAnalytics, hasRisk, pc, prepared >>
    /\ UNCHANGED << appVars, resVars, extVars >>

\* An iteration of the loop that raises: generate_signal does, or execute
\* does for a buy or a sell that passed the gate, before it has placed an
\* order (the account summary lacks NetLiquidation).  The finally clause
\* disconnects and run raises.
IBKRRaise ==
    /\ mode = "ibkr" /\ pc = "streaming"
    /\ \E h \in StreamNext(feed, polls) : \E fault \in {"generate_signal", "execute"} :
        /\ feed' = [feed EXCEPT !.data = h]
        /\ snapshot' = h
        /\ IF fault = "generate_signal"
           THEN UNCHANGED << signal, verdict >>
           ELSE \E sig \in Signals(strategy, h) :
                /\ sig.side # "hold" /\ ~RiskBlocks(hasRisk, limits, sig)
                /\ signal' = sig
                /\ verdict' = "failed"
        /\ outcome' = Outcome("run", "Exception", [raised |-> fault])
    /\ connected' = FALSE
    /\ pc' = "done"
    /\ UNCHANGED << mode, strategy, limits, hasAnalytics, hasRisk, prepared, polls,
                    targets, trades, notes, acctVars, position, orders, sleeps >>
    /\ UNCHANGED << appVars, result, extVars >>

\* The stream is exhausted: the finally clause disconnects and run returns.
IBKRFinish ==
    /\ mode = "ibkr" /\ pc = "streaming"
    /\ feed.kind = "static" /\ polls >= 1
    /\ connected' = FALSE
    /\ pc' = "done"
    /\ outcome' = Outcome("run", "ok", EmptyDict)
    /\ UNCHANGED << setupVars, prepared, polls, snapshot, signal, verdict, targets,
                    trades, notes, acctVars, position, orders, sleeps >>
    /\ UNCHANGED << appVars, result, extVars >>

-----------------------------------------------------------------------------
\* BacktestEngine and StrategyBridge.

\* The guard of run with the test lost: a disabled configuration runs.
BacktestDisabled_Never(cfg) == FALSE

\* "if not self.config.enabled"
BacktestDisabled(cfg) == ~cfg.enabled

\* BacktestEngine.run, up to cerebro.run: it raises when backtesting is disabled;
\* otherwise the history is loaded and prepared, the prepared frame is handed
\* to a new bridge, which has seen no bar and given no target, and a new
\* broker starts with starting_cash and no order.
BacktestStart ==
    /\ mode = "backtest" /\ pc = "init"
    /\ IF BacktestDisabled(btConfig)
       THEN /\ pc' = "done"
            /\ outcome' = Outcome("run_backtest", "RuntimeError", EmptyDict)
            /\ UNCHANGED << prepared, acctVars, loads, polls, btOrders, snapshot, signal,
                            verdict, targets >>
       ELSE /\ loads' = loads + 1
            /\ prepared' = Prepare(strategy, feed.data)
            /\ pc' = "streaming"
            /\ polls' = 0
            /\ snapshot' = << >>
            /\ signal' = NoSignal
            /\ verdict' = "none"
            /\ targets' = << >>
            /\ btOrders' = << >>
            /\ equity' = btConfig.starting_cash
            /\ peak' = btConfig.starting_cash
            /\ halted' = FALSE
            /\ UNCHANGED outcome
    /\ UNCHANGED << setupVars, trades, notes, ibVars, appVars, result, perf, runs >>

\* The DatetimeIndex of the history the bridge and the PandasData feed are
\* given: sorted by _load_history and freed of duplicates by run, so the
\* timestamp of a row is its rank.
Index(frame) == [i \in 1..Len(frame) |-> i]

\* The slice taking the whole frame, whatever the bar.
Loc_Whole(frame, current_dt) == frame

\* history_df.loc[: current_dt] on a sorted index: the rows up to and
\* including the label.
Loc(frame, current_dt) ==
    SubSeq(frame, 1, Cardinality({i \in 1..Len(frame) : Index(frame)[i] <= current_dt}))

\* An order of the backtest broker: its side, the price of the bar it was
\* created at, the status of the last notify_order call for it ("Created"
\* before any) and the fills it has had.
Order(side, price) == [side |-> side, price |-> price, status |-> "Created", fills |-> 0]

\* order_target_percent(target): the broker compares the target with the value
\* held and creates a buy order, a sell order or none; a target of 0 on an
\* empty account creates none.
TargetOrders(placed, target, price) ==
    IF placed = << >>
    THEN (IF target > 0 THEN {<< Order("buy", price) >>}
          ELSE IF target < 0 THEN {<< Order("sell", price) >>}
          ELSE {<< >>})
    ELSE {<< >>} \cup {<< Order(sd, price) >> : sd \in {"buy", "sell"}}

\* The broker has handled the order in its cycle before the bar: it was
\* submitted, accepted and then filled, in whole or in part, or refused.
Handled(order) == order.status \in {"Partial", "Completed", "Margin"}

\* StrategyBridge.next at bar polls + 1; the notifications of the broker's
\* cycle are delivered before it.
BridgeNext ==
    /\ mode = "backtest" /\ pc = "streaming"
    /\ polls < Len(prepared)
    /\ \A i \in 1..Len(btOrders) : Handled(btOrders[i])
    /\ polls' = polls + 1
    /\ LET current_dt == Index(prepared)[polls + 1]
           truncated_history == Loc(prepared, current_dt)
       IN  \E eq \in EquityMoves(btConfig.starting_cash) :
            /\ Account(eq)
            /\ IF truncated_history = << >>
               THEN UNCHANGED << snapshot, signal, verdict, targets >>
               ELSE \E sig \in Signals(strategy, truncated_history) :
                    /\ snapshot' = truncated_history
                    /\ signal' = sig
                    /\ IF RiskBlocks(hasRisk, limits, sig)
                       THEN verdict' = "blocked" /\ UNCHANGED targets
                       ELSE IF sig.side = "buy"
                       THEN /\ targets' = Append(targets, Min(FullFraction, sig.size))
                            /\ verdict' = "executed"
                       ELSE IF sig.side = "sell"
                       THEN /\ targets' = Append(targets, -Min(FullFraction, sig.size))
                            /\ verdict' = "executed"
                       ELSE verdict' = "skipped" /\ UNCHANGED targets
            /\ IF targets' = targets
               THEN UNCHANGED btOrders
               ELSE \E new \in TargetOrders(btOrders, targets'[Len(targets')],
                                             LastClose(truncated_history)) :
                        btOrders' = btOrders \o new
    /\ UNCHANGED << setupVars, pc, prepared, trades, notes, ibVars >>
    /\ UNCHANGED << appVars, resVars, perf, runs, loads >>

\* The statuses the broker may notify next for an order: submitted, accepted,
\* then filled at once or in parts, or refused for lack of cash.
NextStatuses(order) ==
    IF order.status = "Created" THEN {"Submitted"}
    ELSE IF order.status = "Submitted" THEN {"Accepted"}
    ELSE IF order.status = "Accepted" THEN {"Partial", "Completed", "Margin"}
    ELSE IF order.status = "Partial"
         THEN {"Completed"} \cup (IF order.fills < MaxPartials THEN {"Partial"} ELSE {})
    ELSE {}

\* StrategyBridge.notify_order(order), for the oldest order still alive, in
\* the broker's cycle of the bar after the one the order was created at.
NotifyOrder ==
    /\ mode = "backtest" /\ pc = "streaming"
    /\ polls < Len(prepared)
    /\ \E i \in 1..Len(btOrders) : \E status \in NextStatuses(btOrders[i]) :
        LET order == btOrders[i]
            fills == IF status \in {"Partial", "Completed"}
                     THEN order.fills + 1 ELSE order.fills
        IN  /\ \A j \in 1..(i - 1) : NextStatuses(btOrders[j]) = {}
            /\ btOrders' = [btOrders EXCEPT ![i] =
                              [order EXCEPT !.status = status, !.fills = fills]]
            /\ trades' = IF status \in {"Completed", "Partial"} /\ hasAnalytics
                         THEN log_trade(trades, TradeRecord("backtest", order.side,
                                          Num(fills), Num(order.price))).table
                         ELSE trades
    /\ UNCHANGED << setupVars, pc, prepared, polls, snapshot, signal, verdict, targets,
                    notes, acctVars, ibVars >>
    /\ UNCHANGED << appVars, resVars, perf, runs, loads >>

\* total_return = ending_value / starting_cash - 1, in hundredths; the division
\* raises ZeroDivisionError when starting_cash is 0.
TotalReturn(ending, cash) == (ending * FullFraction) \div cash - FullFraction

\* What the SharpeRatio_A analyzer reports: a ratio, or None when it has none.
SharpeRatios == {None, Num(50)}

\* The values pd.Timestamp.utcnow() may return at the end of a run.
Clock == {1, 2}

\* uuid4().hex: an id not drawn before (drawn ids are 1..drawn; a collision of
\* two random 122-bit values is left out).
Uuid4(drawn) == drawn + 1

\* The records of a run with the sharpe_ratio record left out.
PerformanceRecords_ReturnOnly(res) ==
    << PerformanceRecord(res.run_id, res.completed_at, "total_return",
                         Num(res.total_return), [strategy |-> res.strategy_name]) >>

\* The records run logs for its result: total_return, and sharpe_ratio when
\* the ratio is not None.
PerformanceRecords(res) ==
    << PerformanceRecord(res.run_id, res.completed_at, "total_return",
                         Num(res.total_return), [strategy |-> res.strategy_name]) >>
    \o (IF res.sharpe_ratio # None
        THEN << PerformanceRecord(res.run_id, res.completed_at, "sharpe_ratio",
                                  res.sharpe_ratio, [strategy |-> res.strategy_name]) >>
        ELSE << >>)

\* log_performance called for each record in turn.
RECURSIVE LogAll(_, _)
LogAll(table, records) ==
    IF records = << >> THEN table
    ELSE LogAll(log_performance(table, Head(records)).table, Tail(records))

\* cerebro.run has passed the last bar: BacktestEngine.run computes the result,
\* logs its performance records when it has a store, and returns it.
BacktestFinish ==
    /\ mode = "backtest" /\ pc = "streaming"
    /\ polls = Len(prepared)
    /\ pc' = "done"
    /\ IF btConfig.starting_cash = 0
       THEN /\ outcome' = Outcome("run_backtest", "ZeroDivisionError", EmptyDict)
            /\ UNCHANGED << result, perf, runs >>
       ELSE \E sharpe \in SharpeRatios : \E completed_at \in Clock :
            LET res == BacktestResult(strategy.name, btConfig.starting_cash, equity,
                                      TotalReturn(equity, btConfig.starting_cash),
                                      sharpe, Uuid4(runs), completed_at)
            IN  /\ outcome' = Outcome("run_backtest", "ok", EmptyDict)
                /\ runs' = runs + 1
                /\ result' = res
                /\ perf' = IF hasAnalytics THEN LogAll(perf, PerformanceRecords(res))
                           ELSE perf
    /\ UNCHANGED << setupVars, prepared, polls, snapshot, signal, verdict, targets,
                    trades, notes, acctVars, ibVars, appVars, btOrders, loads >>

-----------------------------------------------------------------------------
\* Registries.

StrategyNames == {"momentum", "trend"}
ExecutionNames == {"paper", "ibkr", "sim"}
StrategyFactories == {"MomentumStrategy", "CustomStrategy"}
ExecutionFactories == {"PaperTradingEngine", "IBKRExecutionEngine"}

\* The registrations made when the packages are imported.
BuiltinRegistry ==
    [strategy |-> [n \in StrategyNames |->
                     IF n = "momentum" THEN "MomentumStrategy" ELSE "unregistered"],
     execution |-> [n \in ExecutionNames |->
                     IF n = "paper" THEN "PaperTradingEngine"
                     ELSE IF n = "ibkr" THEN "IBKRExecutionEngine" ELSE "unregistered"]]

\* A registration that keeps the factory already registered under the name.
register_KeepFirst(reg, name, factory) ==
    IF reg[name] = "unregistered" THEN [reg EXCEPT ![name] = factory] ELSE reg

\* register_strategy(name)(factory), register_execution_engine(name)(factory)
register(reg, name, factory) == [reg EXCEPT ![name] = factory]

\* {**parameters, **overrides}
Overlay(parameters, overrides) ==
    [k \in DOMAIN parameters \cup DOMAIN overrides |->
        IF k \in DOMAIN overrides THEN overrides[k] ELSE parameters[k]]

Object(factory, kwargs) == [factory |-> factory, kwargs |-> kwargs]
NoObject == Object("none", EmptyDict)

\* StrategyConfig.build and ExecutionConfig.build: the factory registered under
\* the name, called with the overlaid parameters, or ValueError.
build(reg, section, overrides) ==
    LET factory == reg[section.name]
    IN  IF factory = "unregistered"
        THEN [result |-> "ValueError", object |-> NoObject]
        ELSE [result |-> "ok",
              object |-> Object(factory, Overlay(section.parameters, overrides))]

-----------------------------------------------------------------------------
\* Data feeds by source.

\* A source string as its parts between colons: "ccxt:binance" is
\* << "ccxt", "binance" >>, "ccxt:" is << "ccxt", "" >>.  Source(name) is a
\* source with no colon in it.
Source(name) == << name >>

\* source.startswith("ccxt:")
StartsWithCcxt(source) == Len(source) >= 2 /\ source[1] = "ccxt"

\* source.split(":", maxsplit=1)[1]: all that follows the first colon, later
\* colons included.
ExchangeId(source) == Tail(source)

\* Attributes of the imported ccxt module: an exchange class listed in
\* ccxt.exchanges, the base class ccxt.Exchange that ccxt_feed.py names as the
\* client's type, and __name__, a string, which every module has.
CcxtModule ==
    ("binance" :> "exchange") @@ ("Exchange" :> "class") @@ ("__name__" :> "str")

\* getattr(ccxt, exchange_id)
GetAttr(exchange_id) ==
    IF Len(exchange_id) = 1 /\ exchange_id[1] \in DOMAIN CcxtModule
    THEN CcxtModule[exchange_id[1]]
    ELSE "AttributeError"

\* CCXTFeed(exchange_id, ...): AttributeError of getattr becomes ValueError;
\* what getattr returned is called, and calling a string raises TypeError.
CCXTFeed(exchange_id) ==
    LET exchange_cls == GetAttr(exchange_id)
    IN  IF exchange_cls = "AttributeError"
        THEN [result |-> "ValueError", object |-> NoObject]
        ELSE IF exchange_cls = "str"
        THEN [result |-> "TypeError", object |-> NoObject]
        ELSE [result |-> "ok",
              object |-> Object("CCXTFeed", [client |-> exchange_id[1]])]

\* build_data_feed(source, symbol, interval, lookback)
build_data_feed(source) ==
    IF StartsWithCcxt(source) THEN CCXTFeed(ExchangeId(source))
    ELSE IF source = << "static" >>
    THEN [result |-> "ok", object |-> Object("StaticFeed", EmptyDict)]
    ELSE [result |-> "ValueError", object |-> NoObject]

-----------------------------------------------------------------------------
\* Configuration.

Section(k, name, parameters) == [k |-> k, name |-> name, parameters |-> parameters]
Absent == Section("absent", "", EmptyDict)
Invalid == Section("invalid", "", EmptyDict)

\* The sections of a YAML mapping.  data.name is the source, backtest.name and
\* analytics.name tell enabled from disabled, analytics.parameters holds the
\* backend, backtest.parameters the starting cash, risk.parameters the limit.
Doc(data, strat, exec, backtest, risk, analytics) ==
    [data |-> data, strategy |-> strat, execution |-> exec, backtest |-> backtest,
     risk |-> risk, analytics |-> analytics]
EmptyDoc == Doc(Absent, Absent, Absent, Absent, Absent, Absent)

DataSections == {Absent, Section("valid", "static", EmptyDict),
                 Section("valid", "csv", EmptyDict)}
StrategyParameters == {EmptyDict, [name |-> "custom"]}
StrategySections ==
    {Absent, Invalid}
      \cup {Section("valid", n, ps) : n \in StrategyNames, ps \in StrategyParameters}
ExecutionParameters == {EmptyDict, [symbol |-> "ETH/USDT"]}
ExecutionSections ==
    {Absent} \cup {Section("valid", n, EmptyDict) : n \in ExecutionNames}
             \cup {Section("valid", "paper", ps) : ps \in ExecutionParameters}
BacktestSections ==
    {Absent, Section("valid", "disabled", [starting_cash |-> 100])}
      \cup {Section("valid", "enabled", [starting_cash |-> c]) : c \in StartingCashes}
RiskSections == {Absent, Section("valid", "", [max_position_size |-> 20])}
AnalyticsSections ==
    {Absent, Section("valid", "disabled", [backend |-> "sqlite"])}
      \cup {Section("valid", "enabled", [backend |-> b]) : b \in {"sqlite", "postgres"}}

Docs ==
    { Doc(d, s, e, b, r, a) :
        d \in DataSections, s \in StrategySections, e \in ExecutionSections,
        b \in BacktestSections, r \in RiskSections, a \in AnalyticsSections }

\* What is at the path: nothing, a directory, text that is no YAML, a YAML
\* null (an empty file), a YAML sequence, or a YAML mapping.
File(kind, doc) == [kind |-> kind, doc |-> doc]
Files ==
    {File(k, EmptyDoc) : k \in {"missing", "directory", "malformed", "null", "sequence"}}
      \cup {File("mapping", d) : d \in Docs}

\* AppConfig.model_validate: the three required sections and no ill-formed one.
Validates(f) ==
    /\ f.kind \in {"null", "mapping"}
    /\ \A sec \in {"data", "strategy", "execution"} : f.doc[sec].k = "valid"
    /\ \A sec \in {"backtest", "risk", "analytics"} : f.doc[sec].k # "invalid"

Loaded(res, doc) == [result |-> res, doc |-> doc]
NoConfig == Loaded("none", EmptyDoc)

\* load_config that lets pydantic's ValidationError through.
load_config_Unwrapped(f) ==
    IF f.kind = "missing" THEN Loaded("FileNotFoundError", EmptyDoc)
    ELSE IF f.kind = "directory" THEN Loaded("IsADirectoryError", EmptyDoc)
    ELSE IF f.kind = "malformed" THEN Loaded("YAMLError", EmptyDoc)
    ELSE IF Validates(f) THEN Loaded("ok", f.doc)
    ELSE Loaded("ValidationError", EmptyDoc)

\* load_config(path)
load_config(f) ==
    IF f.kind = "missing" THEN Loaded("FileNotFoundError", EmptyDoc)
    ELSE IF f.kind = "directory" THEN Loaded("IsADirectoryError", EmptyDoc)
    ELSE IF f.kind = "malformed" THEN Loaded("YAMLError", EmptyDoc)
    ELSE IF Validates(f) THEN Loaded("ok", f.doc)
    ELSE Loaded("ValueError", EmptyDoc)

-----------------------------------------------------------------------------
\* SilkRoadApp.

\* MomentumStrategy's defaults.
DefaultFastWindow == 20
DefaultSlowWindow == 50
DefaultThreshold == 0
DefaultOrderSize == 10

\* StaticFeed with no data given: lookback rows of one constant candle.
ConstantFrame(n) == [i \in 1..n |-> RawRow(2)]

\* The strategy object a registered factory constructs from keyword arguments.
Construct(object) ==
    LET base == IF object.factory = "MomentumStrategy"
                THEN MomentumStrategy(DefaultFastWindow, DefaultSlowWindow,
                                      DefaultThreshold, DefaultOrderSize)
                ELSE OtherStrategy(DefaultOrderSize)
    IN  IF "name" \in DOMAIN object.kwargs
        THEN [base EXCEPT !.name = object.kwargs.name]
        ELSE IF "order_size" \in DOMAIN object.kwargs
        THEN [base EXCEPT !.order_size = object.kwargs.order_size]
        ELSE base

\* RiskLimits()
DefaultLimits ==
    RiskLimits(DefaultMaxPositionFraction, DefaultMaxDrawdown, DefaultStopLossPct)

\* from_file taking the default limits whatever the risk section says.
LimitsOf_Defaults(cfg) == DefaultLimits

\* RiskLimits of from_file: the risk section's, or the defaults.
LimitsOf(cfg) ==
    IF cfg.risk.k = "valid"
    THEN RiskLimits(cfg.risk.parameters.max_position_size, DefaultMaxDrawdown,
                    DefaultStopLossPct)
    ELSE RiskLimits(DefaultMaxPositionFraction, DefaultMaxDrawdown, DefaultStopLossPct)

\* A RiskManager object; instance tells one object from another.
RiskManager(instance, risk_limits) == [instance |-> instance, limits |-> risk_limits]
NoRiskManager == RiskManager("none", DefaultLimits)

SilkRoadApp(strat, analytics, execution, backtester, risk_manager) ==
    [strategy |-> strat, analytics |-> analytics, execution_engine |-> execution,
     backtest_engine |-> backtester, risk_manager |-> risk_manager]
NoApp == SilkRoadApp(OtherStrategy(0), "None", NoObject, "None", NoRiskManager)

\* The gate of a PaperTradingEngine or an IBKRExecutionEngine:
\* "risk_manager or RiskManager()", a new object when none was passed.
ExecutionGate(engine) ==
    IF "risk_manager" \in DOMAIN engine.kwargs
    THEN engine.kwargs.risk_manager
    ELSE RiskManager("engine", DefaultLimits)

\* The gate of the app's BacktestEngine and of its StrategyBridge: the
\* risk_manager that from_file hands to config.backtest.build.
BacktestGate(a) == a.risk_manager

\* from_file building a backtest engine whether or not the section is there.
BacktestEngineOf_Always(cfg) == "BacktestEngine"

\* "config.backtest.build(...) if config.backtest else None"
BacktestEngineOf(cfg) ==
    IF cfg.backtest.k = "valid" THEN "BacktestEngine" ELSE "None"

\* "if config.analytics and config.analytics.enabled"
AnalyticsOf(cfg) ==
    IF cfg.analytics.k = "valid" /\ cfg.analytics.name = "enabled"
    THEN "AnalyticsStore" ELSE "None"

\* SilkRoadApp.from_file(path): the exception it raises, or the app.
from_file(f, reg) ==
    LET loaded == load_config(f)
        cfg == loaded.doc
        strat == build(reg.strategy, cfg.strategy, EmptyDict)
        risk_manager == RiskManager("from_file", LimitsOf(cfg))
        exec == build(reg.execution, cfg.execution,
                      [symbol |-> "BTC/USDT", risk_manager |-> risk_manager])
    IN  IF loaded.result # "ok" THEN [result |-> loaded.result, app |-> NoApp]
        ELSE IF build_data_feed(Source(cfg.data.name)).result # "ok"
             THEN [result |-> build_data_feed(Source(cfg.data.name)).result,
                   app |-> NoApp]
        ELSE IF strat.result # "ok" THEN [result |-> strat.result, app |-> NoApp]
        ELSE IF AnalyticsOf(cfg) # "None" /\ cfg.analytics.parameters.backend # "sqlite"
             THEN [result |-> "ValueError", app |-> NoApp]
        ELSE IF exec.result # "ok" THEN [result |-> exec.result, app |-> NoApp]
        ELSE [result |-> "ok",
              app |-> SilkRoadApp(Construct(strat.object), AnalyticsOf(cfg),
                                  exec.object, BacktestEngineOf(cfg), risk_manager)]

-----------------------------------------------------------------------------
\* The runs of the three loops.

Windows == {<< 1, 2 >>}

Strategies ==
    { MomentumStrategy(w[1], w[2], thr, osz) :
        w \in Windows, thr \in Thresholds, osz \in OrderSizes }
    \cup { OtherStrategy(osz) : osz \in OrderSizes }

MaxPositionFractions == {DefaultMaxPositionFraction, 20}

\* An engine built by hand: no configuration file, no SilkRoadApp.
NoConfiguration ==
    /\ file = File("missing", EmptyDoc)
    /\ registry = BuiltinRegistry
    /\ registered = BuiltinRegistry
    /\ config = NoConfig
    /\ app = NoApp
    /\ built = NoObject
    /\ outcome = NoOutcome
    /\ result = NoResult
    /\ perf = << >>
    /\ runs = 0
    /\ btOrders = << >>
    /\ loads = 0

Init ==
    /\ mode \in {"paper", "ibkr", "backtest"}
    /\ pc = "init"
    /\ feed \in [kind : (IF mode = "backtest" THEN {"static"} ELSE {"static", "ccxt"}),
                  data : RawFrames(MaxHistory)]
                 \cup (IF mode = "ibkr" THEN {[kind |-> "none", data |-> << >>]} ELSE {})
    /\ strategy \in Strategies
    /\ limits \in { RiskLimits(m, DefaultMaxDrawdown, DefaultStopLossPct) :
                      m \in MaxPositionFractions }
    /\ hasAnalytics \in BOOLEAN
    /\ hasRisk \in (IF mode = "backtest" THEN BOOLEAN ELSE {TRUE})
    /\ prepared = << >>
    /\ polls = 0
    /\ snapshot = << >>
    /\ signal = NoSignal
    /\ verdict = "none"
    /\ targets = << >>
    /\ trades = << >>
    /\ notes = << >>
    /\ equity = 100
    /\ peak = 100
    /\ halted = FALSE
    /\ connected = FALSE
    /\ position = 0
    /\ orders = << >>
    /\ sleeps = 0
    /\ btConfig \in (IF mode = "backtest" THEN BacktestConfigs ELSE {NoBacktest})
    /\ NoConfiguration

Next ==
    \/ PaperStart
    \/ PaperStep
    \/ PaperFinish
    \/ IBKRStart
    \/ IBKRStep
    \/ IBKRRaise
    \/ IBKRFinish
    \/ BacktestStart
    \/ BridgeNext
    \/ NotifyOrder
    \/ BacktestFinish

Spec == Init /\ [][Next]_vars

-----------------------------------------------------------------------------
\* Calls of the pure functions on their own, each on fresh arguments; the
\* variables keep what the last call returned.

UnitSpreads == {NaN} \cup {Num(v) : v \in -2..2}
UnitRows == {RawRow(2)} \cup {[close |-> 2, spread |-> x] : x \in UnitSpreads}
UnitFrames == UNION { [1..m -> UnitRows] : m \in 1..MaxHistory }
UnitThresholds == {-1, 0, 1}
UnitSignals == {Signal(sd, sz, "") : sd \in Sides, sz \in OrderSizes \cup {0}}
UnitLimits ==
    { RiskLimits(m, d, p) : m \in {0, 10, 20}, d \in {0, DefaultMaxDrawdown},
                            p \in {0, DefaultStopLossPct} }

InitSignal ==
    /\ mode = "unit"
    /\ pc = "init"
    /\ feed = [kind |-> "static", data |-> << >>]
    /\ strategy \in { MomentumStrategy(1, 2, thr, osz) :
                        thr \in UnitThresholds, osz \in {10, 20} }
    /\ limits \in UnitLimits
    /\ hasAnalytics = FALSE
    /\ hasRisk = TRUE
    /\ prepared = << >>
    /\ polls = 0
    /\ snapshot = << >>
    /\ signal = NoSignal
    /\ verdict = "none"
    /\ targets = << >>
    /\ trades = << >>
    /\ notes = << >>
    /\ equity = 100
    /\ peak = 100
    /\ halted = FALSE
    /\ connected = FALSE
    /\ position = 0
    /\ orders = << >>
    /\ sleeps = 0
    /\ btConfig = NoBacktest
    /\ NoConfiguration

\* strategy.generate_signal(MarketSnapshot(h))
GenerateSignalCall ==
    /\ mode = "unit"
    /\ \E h \in UnitFrames :
        /\ snapshot' = h
        /\ signal' = generate_signal(strategy, h)
    /\ pc' = "generated"
    /\ verdict' = "none"
    /\ built' = NoObject
    /\ outcome' = NoOutcome
    /\ UNCHANGED << setupVars, prepared, polls, targets, trades, notes, acctVars, ibVars >>
    /\ UNCHANGED << file, registry, registered, config, app, btConfig, result, extVars >>

\* risk_manager.validate(sig)
ValidateCall ==
    /\ mode = "unit"
    /\ \E sig \in UnitSignals :
        /\ signal' = sig
        /\ verdict' = IF validate(limits, sig) THEN "valid" ELSE "invalid"
    /\ pc' = "validated"
    /\ snapshot' = << >>
    /\ built' = NoObject
    /\ outcome' = NoOutcome
    /\ UNCHANGED << setupVars, prepared, polls, targets, trades, notes, acctVars, ibVars >>
    /\ UNCHANGED << file, registry, registered, config, app, btConfig, result, extVars >>

\* Source strings: the two kinds, other spellings, and ccxt sources with an
\* exchange, an unknown id, no id, a colon in the id, and other attributes of
\* the module.
Sources ==
    { << "static" >>, << "Static" >>, << "csv" >>, << "" >>, << "ccxt" >>,
      << "static", "" >>, << "ccxt", "" >>, << "ccxt", "binance" >>,
      << "ccxt", "nosuch" >>, << "ccxt", "binance", "us" >>,
      << "ccxt", "Exchange" >>, << "ccxt", "__name__" >> }

\* build_data_feed(source, ...)
BuildDataFeedCall ==
    /\ mode = "unit"
    /\ \E source \in Sources :
        /\ built' = build_data_feed(source).object
        /\ outcome' = Outcome("build_data_feed", build_data_feed(source).result,
                              [source |-> source])
    /\ pc' = "built"
    /\ snapshot' = << >>
    /\ signal' = NoSignal
    /\ verdict' = "none"
    /\ UNCHANGED << setupVars, prepared, polls, targets, trades, notes, acctVars, ibVars >>
    /\ UNCHANGED << file, registry, registered, config, app, btConfig, result, extVars >>

NextSignal == GenerateSignalCall \/ ValidateCall \/ BuildDataFeedCall

SpecSignal == InitSignal /\ [][NextSignal]_vars

-----------------------------------------------------------------------------
\* Registrations, configuration loading and the application.

\* Names registered after import; the built-in registrations stay.
NewStrategyNames == {"trend"}
NewExecutionNames == {"sim"}
StrategyOverrides == {EmptyDict, [name |-> "fast"]}
ExecutionOverrides == {EmptyDict, [symbol |-> "BTC/USDT"]}

InitConfig ==
    /\ mode = "config"
    /\ pc = "init"
    /\ feed = [kind |-> "static", data |-> << >>]
    /\ strategy = OtherStrategy(0)
    /\ limits = RiskLimits(DefaultMaxPositionFraction, DefaultMaxDrawdown,
                           DefaultStopLossPct)
    /\ hasAnalytics = FALSE
    /\ hasRisk = TRUE
    /\ prepared = << >>
    /\ polls = 0
    /\ snapshot = << >>
    /\ signal = NoSignal
    /\ verdict = "none"
    /\ targets = << >>
    /\ trades = << >>
    /\ notes = << >>
    /\ equity = 100
    /\ peak = 100
    /\ halted = FALSE
    /\ connected = FALSE
    /\ position = 0
    /\ orders = << >>
    /\ sleeps = 0
    /\ btConfig = NoBacktest
    /\ file \in Files
    /\ registry = BuiltinRegistry
    /\ registered = BuiltinRegistry
    /\ config = NoConfig
    /\ app = NoApp
    /\ built = NoObject
    /\ outcome = NoOutcome
    /\ result = NoResult
    /\ perf = << >>
    /\ runs = 0
    /\ btOrders = << >>
    /\ loads = 0

\* register_strategy(name)(factory)
RegisterStrategy ==
    /\ mode = "config"
    /\ \E name \in NewStrategyNames : \E factory \in StrategyFactories :
        /\ registry' = [registry EXCEPT !.strategy = register(@, name, factory)]
        /\ registered' = [registered EXCEPT !.strategy[name] = factory]
    /\ outcome' = Outcome("register_strategy", "ok", EmptyDict)
    /\ built' = NoObject
    /\ UNCHANGED << runVars, file, config, app, btConfig, result, extVars >>

\* register_execution_engine(name)(factory)
RegisterExecution ==
    /\ mode = "config"
    /\ \E name \in NewExecutionNames : \E factory \in ExecutionFactories :
        /\ registry' = [registry EXCEPT !.execution = register(@, name, factory)]
        /\ registered' = [registered EXCEPT !.execution[name] = factory]
    /\ outcome' = Outcome("register_execution_engine", "ok", EmptyDict)
    /\ built' = NoObject
    /\ UNCHANGED << runVars, file, config, app, btConfig, result, extVars >>

\* load_config(path)
LoadConfig ==
    /\ mode = "config"
    /\ config' = load_config(file)
    /\ outcome' = Outcome("load_config", load_config(file).result, EmptyDict)
    /\ built' = NoObject
    /\ UNCHANGED << runVars, file, registry, registered, app, btConfig, result, extVars >>

\* config.strategy.build(**overrides) on a loaded configuration
BuildStrategy ==
    /\ mode = "config" /\ config.result = "ok"
    /\ \E overrides \in StrategyOverrides :
        LET b == build(registry.strategy, config.doc.strategy, overrides)
        IN  /\ built' = b.object
            /\ outcome' = Outcome("StrategyConfig.build", b.result, overrides)
    /\ UNCHANGED << runVars, file, registry, registered, config, app, btConfig, result, extVars >>

\* config.execution.build(**overrides) on a loaded configuration
BuildExecution ==
    /\ mode = "config" /\ config.result = "ok"
    /\ \E overrides \in ExecutionOverrides :
        LET b == build(registry.execution, config.doc.execution, overrides)
        IN  /\ built' = b.object
            /\ outcome' = Outcome("ExecutionConfig.build", b.result, overrides)
    /\ UNCHANGED << runVars, file, registry, registered, config, app, btConfig, result, extVars >>

\* SilkRoadApp.from_file(path)
FromFile ==
    /\ mode = "config"
    /\ LET r == from_file(file, registry)
           cfg == file.doc
       IN  /\ outcome' = Outcome("from_file", r.result, EmptyDict)
           /\ IF r.result = "ok"
              THEN /\ app' = r.app
                   /\ config' = Loaded("ok", cfg)
                   /\ mode' = "app"
                   /\ feed' = [kind |-> "static", data |-> ConstantFrame(Lookback)]
                   /\ strategy' = r.app.strategy
                   /\ limits' = r.app.risk_manager.limits
                   /\ hasAnalytics' = (r.app.analytics # "None")
                   /\ btConfig' = IF cfg.backtest.k = "valid"
                                  THEN BacktestConfig(cfg.backtest.name = "enabled",
                                                      cfg.backtest.parameters.starting_cash)
                                  ELSE NoBacktest
              ELSE UNCHANGED << app, config, mode, feed, strategy, limits, hasAnalytics,
                                btConfig >>
    /\ built' = NoObject
    /\ UNCHANGED << pc, hasRisk, prepared, polls, snapshot, signal, verdict, targets,
                    trades, notes, acctVars, ibVars, file, registry, registered, result,
                    extVars >>

\* SilkRoadApp.run_backtest(): RuntimeError without a backtest engine, else
\* BacktestEngine.run, which BacktestStart, BridgeNext and BacktestFinish carry out.
RunBacktest ==
    /\ mode = "app"
    /\ IF app.backtest_engine = "None"
       THEN /\ outcome' = Outcome("run_backtest", "RuntimeError", EmptyDict)
            /\ UNCHANGED << mode, limits >>
       ELSE /\ outcome' = Outcome("run_backtest", "running", EmptyDict)
            /\ mode' = "backtest"
            /\ limits' = BacktestGate(app).limits
    /\ UNCHANGED << pc, feed, strategy, hasAnalytics, hasRisk, prepared, polls,
                    snapshot, signal, verdict, targets, trades, notes, acctVars, ibVars,
                    appVars, result, extVars >>

\* SilkRoadApp.run_live(): execution_engine.run(strategy), which the actions
\* of the paper loop or of the IBKR loop carry out.
RunLive ==
    /\ mode = "app"
    /\ mode' = IF app.execution_engine.factory = "IBKRExecutionEngine"
               THEN "ibkr" ELSE "paper"
    /\ outcome' = Outcome("run_live", "running", EmptyDict)
    /\ limits' = ExecutionGate(app.execution_engine).limits
    /\ UNCHANGED << pc, feed, strategy, hasAnalytics, hasRisk, prepared, polls,
                    snapshot, signal, verdict, targets, trades, notes, acctVars, ibVars,
                    appVars, result, extVars >>

NextConfig ==
    \/ RegisterStrategy
    \/ RegisterExecution
    \/ LoadConfig
    \/ BuildStrategy
    \/ BuildExecution
    \/ FromFile
    \/ RunBacktest
    \/ BacktestStart
    \/ BridgeNext
    \/ NotifyOrder
    \/ BacktestFinish

SpecConfig == InitConfig /\ [][NextConfig]_vars

-----------------------------------------------------------------------------
\* An application built from a file, then run live or backtested.

\* Configuration files that from_file accepts: a static source, a strategy
\* registered under "trend" that signals as it likes, with its default order
\* size or a larger one, a paper or an IBKR engine, a backtest section or
\* none, a risk section or none, no analytics.
AppStrategySections ==
    {Section("valid", "trend", ps) : ps \in {EmptyDict, [order_size |-> 20]}}
AppExecutionSections == {Section("valid", n, EmptyDict) : n \in {"paper", "ibkr"}}
AppBacktestSections == {Absent, Section("valid", "enabled", [starting_cash |-> 100])}
AppFiles ==
    { File("mapping", Doc(Section("valid", "static", EmptyDict), s, e, b, r, Absent)) :
        s \in AppStrategySections, e \in AppExecutionSections,
        b \in AppBacktestSections, r \in RiskSections }

InitApp ==
    /\ mode = "config"
    /\ pc = "init"
    /\ feed = [kind |-> "static", data |-> << >>]
    /\ strategy = OtherStrategy(0)
    /\ limits = RiskLimits(DefaultMaxPositionFraction, DefaultMaxDrawdown,
                           DefaultStopLossPct)
    /\ hasAnalytics = FALSE
    /\ hasRisk = TRUE
    /\ prepared = << >>
    /\ polls = 0
    /\ snapshot = << >>
    /\ signal = NoSignal
    /\ verdict = "none"
    /\ targets = << >>
    /\ trades = << >>
    /\ notes = << >>
    /\ equity = 100
    /\ peak = 100
    /\ halted = FALSE
    /\ connected = FALSE
    /\ position = 0
    /\ orders = << >>
    /\ sleeps = 0
    /\ btConfig = NoBacktest
    /\ file \in AppFiles
    /\ registry = [BuiltinRegistry EXCEPT
                     !.strategy = register(@, "trend", "CustomStrategy")]
    /\ registered = registry
    /\ config = NoConfig
    /\ app = NoApp
    /\ built = NoObject
    /\ outcome = NoOutcome
    /\ result = NoResult
    /\ perf = << >>
    /\ runs = 0
    /\ btOrders = << >>
    /\ loads = 0

NextApp ==
    \/ FromFile
    \/ RunLive
    \/ RunBacktest
    \/ PaperStart
    \/ PaperStep
    \/ PaperFinish
    \/ IBKRStart
    \/ IBKRStep
    \/ IBKRRaise
    \/ IBKRFinish
    \/ BacktestStart
    \/ BridgeNext
    \/ NotifyOrder
    \/ BacktestFinish

SpecApp == InitApp /\ [][NextApp]_vars

-----------------------------------------------------------------------------
\* One BacktestEngine run again and again.

\* An engine built by hand for MomentumStrategy on a static feed of constant
\* candles, with the default limits: the spread is never off zero, every
\* signal is a hold and the broker gets no order.
InitBacktest ==
    /\ Init
    /\ mode = "backtest"
    /\ feed.data = ConstantFrame(MaxHistory)
    /\ strategy.kind = "momentum" /\ strategy.order_size = DefaultOrderSize
    /\ limits.max_position_fraction = DefaultMaxPositionFraction
    /\ hasRisk

\* engine.run() is called again after it has returned a result.
RunAgain ==
    /\ mode = "backtest" /\ pc = "done"
    /\ outcome.result = "ok" /\ runs < MaxRuns
    /\ pc' = "init"
    /\ outcome' = Outcome("run_backtest", "running", EmptyDict)
    /\ UNCHANGED << setupVars, prepared, polls, snapshot, signal, verdict, targets,
                    trades, notes, acctVars, ibVars, appVars, result, extVars >>

NextBacktest ==
    \/ BacktestStart
    \/ BridgeNext
    \/ BacktestFinish
    \/ RunAgain

SpecBacktest == InitBacktest /\ [][NextBacktest]_vars

-----------------------------------------------------------------------------
\* Calls of an AnalyticsStore on one database.

\* log_* calls that insert a row, over the life of the database.
MaxRows == 3

StoreTrades ==
    { TradeRecord("paper", sd, Num(10), p) : sd \in {"buy", "sell"}, p \in {Num(2), NaN} }
StorePerformance ==
    { PerformanceRecord(1, 1, mt, v, md) :
        mt \in {"total_return", "sharpe_ratio"}, v \in {Num(5), NaN},
        md \in {EmptyDict, [strategy |-> "momentum"]} }

\* No database file yet; pc is "init" and "closed" without a connection and
\* "open" with one.
InitStore ==
    /\ mode = "store"
    /\ pc = "init"
    /\ feed = [kind |-> "static", data |-> << >>]
    /\ strategy = OtherStrategy(0)
    /\ limits = RiskLimits(DefaultMaxPositionFraction, DefaultMaxDrawdown,
                           DefaultStopLossPct)
    /\ hasAnalytics = FALSE
    /\ hasRisk = TRUE
    /\ prepared = << >>
    /\ polls = 0
    /\ snapshot = << >>
    /\ signal = NoSignal
    /\ verdict = "none"
    /\ targets = << >>
    /\ trades = << >>
    /\ notes = << >>
    /\ equity = 100
    /\ peak = 100
    /\ halted = FALSE
    /\ connected = FALSE
    /\ position = 0
    /\ orders = << >>
    /\ sleeps = 0
    /\ btConfig = NoBacktest
    /\ NoConfiguration

storeFixed == << setupVars, prepared, polls, snapshot, signal, verdict, targets, notes,
                 acctVars, ibVars, appVars, result, runs, btOrders, loads >>

\* AnalyticsStore(database): connect, then _init_schema.
OpenStore ==
    /\ mode = "store" /\ pc \in {"init", "closed"}
    /\ pc' = "open"
    /\ trades' = CreateTableIfNotExists(trades)
    /\ perf' = CreateTableIfNotExists(perf)
    /\ outcome' = Outcome("AnalyticsStore", "ok", EmptyDict)
    /\ UNCHANGED storeFixed

\* store.log_trade(record)
LogTradeCall ==
    /\ mode = "store" /\ pc = "open"
    /\ Len(trades) + Len(perf) < MaxRows
    /\ \E record \in StoreTrades :
        /\ trades' = log_trade(trades, record).table
        /\ outcome' = Outcome("log_trade", log_trade(trades, record).result, record)
    /\ UNCHANGED << pc, perf, storeFixed >>

\* store.log_performance(record)
LogPerformanceCall ==
    /\ mode = "store" /\ pc = "open"
    /\ Len(trades) + Len(perf) < MaxRows
    /\ \E record \in StorePerformance :
        /\ perf' = log_performance(perf, record).table
        /\ outcome' = Outcome("log_performance", log_performance(perf, record).result,
                              record)
    /\ UNCHANGED << pc, trades, storeFixed >>

\* store.close()
CloseStore ==
    /\ mode = "store" /\ pc = "open"
    /\ pc' = "closed"
    /\ outcome' = Outcome("close", "ok", EmptyDict)
    /\ UNCHANGED << trades, perf, storeFixed >>

NextStore ==
    \/ OpenStore
    \/ LogTradeCall
    \/ LogPerformanceCall
    \/ CloseStore

SpecStore == InitStore /\ [][NextStore]_vars

-----------------------------------------------------------------------------
\* Claims.

\* A step of one of the three loops has just handled a snapshot or a bar.
Stepped == polls' = polls + 1

\* C1: in the three loops, a signal that validate rejects is skipped: execute
\* is not called, no target reaches the broker, no order is placed, no trade
\* row is written, and the loop goes on.
C1_RejectedSignalSkipped ==
    [][(Stepped /\ hasRisk /\ ~validate(limits, signal'))
         => /\ verdict' = "blocked"
            /\ targets' = targets
            /\ orders' = orders
            /\ trades' = trades
            /\ pc' = "streaming"]_vars

\* A rejected snapshot of a polling feed was followed by a snapshot that traded.
C1_Witness ==
    /\ Len(notes) >= 2
    /\ notes[1].kind \in {"risk-blocked", "ibkr-blocked"}
    /\ polls >= 2
    /\ verdict = "executed"

\* C2: in a paper or IBKR run the snapshot given to MomentumStrategy carries
\* the columns of prepare, so once the slow window is full the signal is the
\* one the moving-average spread of the streamed history calls for.
C2_StreamedSnapshotsPrepared ==
    (/\ mode \in {"paper", "ibkr"}
     /\ strategy.kind = "momentum"
     /\ polls >= 1
     /\ Len(snapshot) >= Max(strategy.fast_window, strategy.slow_window))
        => /\ signal = generate_signal(strategy, Prepare(strategy, snapshot))
           /\ signal.reason # "spread-not-computed"

\* C3: generate_signal compares the spread of the last row with the threshold:
\* buy above it, sell below its negation, hold otherwise, and hold with reason
\* spread-not-computed when the spread is absent or NaN.
C3_MomentumComparison ==
    (mode = "unit" /\ pc = "generated") =>
        LET spread == Get(snapshot[Len(snapshot)], "spread")
            thr == strategy.threshold
        IN  /\ spread.k # "num" => signal = Signal("hold", 0, "spread-not-computed")
            /\ (spread.k = "num" /\ spread.v > thr)
                 => signal = Signal("buy", strategy.order_size, "")
            /\ (spread.k = "num" /\ spread.v <= thr /\ spread.v < -thr)
                 => signal = Signal("sell", strategy.order_size, "")
            /\ (spread.k = "num" /\ spread.v <= thr /\ spread.v >= -thr)
                 => signal = Signal("hold", 0, "")

\* A sell decided by a spread below the negated threshold, on a snapshot whose
\* earlier row carries another spread.
C3_Witness ==
    /\ mode = "unit" /\ pc = "generated"
    /\ signal.side = "sell"
    /\ Len(snapshot) = 2
    /\ Get(snapshot[1], "spread") # Get(snapshot[2], "spread")

\* C4: validate returns False exactly when the size is above
\* max_position_fraction, whatever the side, the other limits and the calls
\* made before.
C4_SingleThreshold ==
    (mode = "unit" /\ pc = "validated") =>
        /\ verdict \in {"valid", "invalid"}
        /\ (verdict = "invalid") <=> (signal.size > limits.max_position_fraction)

\* A size equal to the limit passed.
C4_Witness ==
    /\ mode = "unit" /\ pc = "validated"
    /\ signal.size = limits.max_position_fraction
    /\ verdict = "valid"

\* C5: every target fraction handed to the broker behind the risk gate is at
\* most max_position_fraction in absolute value.
C5_TargetWithinLimit ==
    hasRisk => \A i \in 1..Len(targets) : Abs(targets[i]) <= limits.max_position_fraction

\* C6: once the drawdown has exceeded max_drawdown, no further buy or sell
\* signal is executed and no further order is placed.
C6_HaltOnDrawdown ==
    [][halted => /\ ~(Stepped /\ verdict' = "executed" /\ signal'.side # "hold")
                 /\ targets' = targets
                 /\ orders' = orders]_vars

\* The configuration at the path is a mapping whose required sections are
\* well-formed, with a static source and a backtest section that is enabled.
BacktestConfigured ==
    /\ mode = "backtest" /\ pc = "done"
    /\ config.result = "ok"
    /\ config.doc.backtest.k = "valid" /\ config.doc.backtest.name = "enabled"

\* C7: from_file then run_backtest on a valid configuration with an enabled
\* backtest section returns a result that carries the configured strategy
\* name and the configured starting cash.
C7_BacktestResultFields ==
    BacktestConfigured =>
        /\ outcome = Outcome("run_backtest", "ok", EmptyDict)
        /\ result.strategy_name = config.doc.strategy.name
        /\ result.starting_cash = config.doc.backtest.parameters.starting_cash

\* The name a factory gives its instances when no name is passed.
DefaultName(factory) == IF factory = "MomentumStrategy" THEN "momentum" ELSE "other"

\* from_file was called on a mapping with the three required sections only,
\* a static source and registered strategy and execution names.
RequiredSectionsOnly ==
    /\ outcome.op = "from_file"
    /\ file.kind = "mapping"
    /\ file.doc.data.k = "valid" /\ file.doc.data.name = "static"
    /\ file.doc.strategy.k = "valid"
    /\ registered.strategy[file.doc.strategy.name] # "unregistered"
    /\ file.doc.execution.k = "valid"
    /\ registered.execution[file.doc.execution.name] # "unregistered"
    /\ file.doc.backtest = Absent /\ file.doc.risk = Absent /\ file.doc.analytics = Absent

\* C8 as stated: such a configuration loads, with analytics None, backtest_engine
\* None and strategy.name equal to the configured strategy name.
C8_NameIsConfiguredName ==
    RequiredSectionsOnly =>
        /\ outcome.result = "ok" /\ mode = "app"
        /\ app.analytics = "None" /\ app.backtest_engine = "None"
        /\ app.strategy.name = file.doc.strategy.name

\* C8, amended: such a configuration loads, with analytics None and
\* backtest_engine None; strategy.name is the name parameter when the strategy
\* parameters give one, else the name the registered factory gives by default.
C8_RequiredSectionsLoad ==
    RequiredSectionsOnly =>
        /\ outcome.result = "ok" /\ mode = "app"
        /\ app.analytics = "None" /\ app.backtest_engine = "None"
        /\ app.strategy.name =
             IF "name" \in DOMAIN file.doc.strategy.parameters
             THEN file.doc.strategy.parameters.name
             ELSE DefaultName(registered.strategy[file.doc.strategy.name])

\* The test's configuration: momentum with no parameters, paper execution.
C8_Witness ==
    /\ RequiredSectionsOnly
    /\ file.doc.strategy = Section("valid", "momentum", EmptyDict)
    /\ file.doc.execution.name = "paper"
    /\ app.strategy.name = "momentum"

\* The section a build call read, and the registry it looked the name up in.
BuildCalled == outcome.op \in {"StrategyConfig.build", "ExecutionConfig.build"}
BuiltSection ==
    IF outcome.op = "StrategyConfig.build" THEN config.doc.strategy
    ELSE config.doc.execution
BuiltFrom ==
    IF outcome.op = "StrategyConfig.build" THEN registered.strategy
    ELSE registered.execution

\* C9: build calls the factory most recently registered under the name with
\* the parameters overlaid by the overrides, and raises ValueError, building
\* nothing, when the name was never registered.
C9_BuildThroughRegistry ==
    BuildCalled =>
        LET factory == BuiltFrom[BuiltSection.name]
            parameters == BuiltSection.parameters
            overrides == outcome.args
        IN  IF factory = "unregistered"
            THEN outcome.result = "ValueError" /\ built = NoObject
            ELSE /\ outcome.result = "ok"
                 /\ built.factory = factory
                 /\ DOMAIN built.kwargs = DOMAIN parameters \cup DOMAIN overrides
                 /\ \A k \in DOMAIN overrides : built.kwargs[k] = overrides[k]
                 /\ \A k \in DOMAIN parameters \ DOMAIN overrides :
                        built.kwargs[k] = parameters[k]

\* A name registered after import was built, with an override replacing a
\* configured parameter of the same key.
C9_Witness ==
    /\ outcome.op = "StrategyConfig.build"
    /\ config.doc.strategy.name = "trend"
    /\ built.factory = "CustomStrategy"
    /\ "name" \in DOMAIN config.doc.strategy.parameters
    /\ "name" \in DOMAIN outcome.args
    /\ built.kwargs.name # config.doc.strategy.parameters.name

\* The content at the path validates as AppConfig.
WellFormedConfig ==
    /\ file.kind = "mapping"
    /\ file.doc.data.k = "valid"
    /\ file.doc.strategy.k = "valid"
    /\ file.doc.execution.k = "valid"

\* C10 as stated: load_config ends in exactly one of three ways.
C10_ThreeOutcomes ==
    outcome.op = "load_config" =>
        /\ outcome.result \in {"FileNotFoundError", "ValueError", "ok"}
        /\ (outcome.result = "FileNotFoundError") <=> (file.kind = "missing")
        /\ (outcome.result = "ok") <=> WellFormedConfig

\* C10, amended: FileNotFoundError for a missing path; for a file that parses
\* as YAML, ValueError when the content does not validate (an empty file, a
\* missing or ill-formed required section) and the AppConfig otherwise; a
\* directory and text that is no YAML end in the exception of open() and of
\* the YAML parser.
C10_LoadConfigOutcomes ==
    outcome.op = "load_config" =>
        /\ file.kind = "missing" => outcome.result = "FileNotFoundError"
        /\ file.kind = "directory" => outcome.result = "IsADirectoryError"
        /\ file.kind = "malformed" => outcome.result = "YAMLError"
        /\ file.kind \in {"null", "sequence"} => outcome.result = "ValueError"
        /\ file.kind = "mapping" =>
             IF WellFormedConfig
             THEN outcome.result = "ok" /\ config = Loaded("ok", file.doc)
             ELSE outcome.result = "ValueError"

\* A mapping with a required section missing ended in ValueError.
C10_Witness ==
    /\ outcome.op = "load_config"
    /\ file.kind = "mapping"
    /\ file.doc.data.k = "valid" /\ file.doc.strategy.k = "valid"
    /\ file.doc.execution = Absent
    /\ outcome.result = "ValueError"

\* The loaded configuration has a backtest section with enabled true.
BacktestEnabled ==
    config.doc.backtest.k = "valid" /\ config.doc.backtest.name = "enabled"

\* C11: run_backtest raises RuntimeError when the configuration has no backtest
\* section (SilkRoadApp.run_backtest, the app staying as it was) and when the
\* section is disabled (BacktestEngine.run); in both cases no history is
\* loaded, prepare is not called and nothing is written to the trades or the
\* performance table.
C11_RuntimeErrorNoSideEffect ==
    /\ [](mode = "backtest" => config.doc.backtest.k = "valid")
    /\ []((mode = "app" /\ outcome.op = "run_backtest")
            => /\ config.doc.backtest.k # "valid"
               /\ outcome.result = "RuntimeError")
    /\ []((mode = "backtest" /\ ~BacktestEnabled)
            => /\ pc \in {"init", "done"}
               /\ pc = "done" => outcome = Outcome("run_backtest", "RuntimeError", EmptyDict))
    /\ [][(mode' \in {"app", "backtest"} /\ ~BacktestEnabled' /\ outcome'.op = "run_backtest")
            => /\ loads' = loads /\ prepared' = prepared
               /\ trades' = trades /\ perf' = perf
               /\ notes' = notes /\ polls' = polls /\ result' = result]_vars

\* A disabled backtest section, an analytics store attached: run_backtest
\* raised and the store is empty.
C11_Witness ==
    /\ mode = "backtest" /\ pc = "done"
    /\ config.doc.backtest.k = "valid" /\ config.doc.backtest.name = "disabled"
    /\ hasAnalytics
    /\ outcome = Outcome("run_backtest", "RuntimeError", EmptyDict)
    /\ loads = 0 /\ prepared = << >> /\ trades = << >> /\ perf = << >>

\* The columns of a row other than its id.
TradeColumns(row) == TradeRecord(row.source, row.side, row.quantity, row.price)
PerformanceColumns(row) ==
    [run_id |-> row.run_id, timestamp |-> row.timestamp, metric |-> row.metric,
     value |-> row.value,
     metadata |-> IF row.metadata.k = "null" THEN EmptyDict ELSE row.metadata.v]

\* The table grew by one row holding the record, with an id above all others.
Appended(old, new, record, columns) ==
    /\ Len(new) = Len(old) + 1
    /\ SubSeq(new, 1, Len(old)) = old
    /\ columns = record
    /\ \A i \in 1..Len(old) : old[i].id < new[Len(new)].id

\* C12 as stated: every log_trade call adds one row to trades and every
\* log_performance call one row to performance, after the earlier rows and
\* with a larger id, leaving the other table alone; opening and closing the
\* store keep the rows.
C12_OneRowPerCall ==
    [][mode = "store" =>
        /\ outcome'.op = "log_trade"
             => /\ Appended(trades, trades', outcome'.args,
                            TradeColumns(trades'[Len(trades')]))
                /\ perf' = perf
        /\ outcome'.op = "log_performance"
             => /\ Appended(perf, perf', outcome'.args,
                            PerformanceColumns(perf'[Len(perf')]))
                /\ trades' = trades
        /\ outcome'.op \in {"AnalyticsStore", "close"}
             => trades' = trades /\ perf' = perf]_vars

\* C12, amended: every log_* call that returns adds one row as above; a call
\* whose record has None or NaN in a NOT NULL column raises IntegrityError and
\* leaves both tables as they were.
C12_AppendOnlyLogs ==
    [][mode = "store" =>
        /\ (outcome'.op = "log_trade" /\ outcome'.result = "ok")
             => /\ Appended(trades, trades', outcome'.args,
                            TradeColumns(trades'[Len(trades')]))
                /\ perf' = perf
        /\ (outcome'.op = "log_performance" /\ outcome'.result = "ok")
             => /\ Appended(perf, perf', outcome'.args,
                            PerformanceColumns(perf'[Len(perf')]))
                /\ trades' = trades
        /\ outcome'.op = "log_trade"
             => (outcome'.result = "ok")
                  <=> (outcome'.args.quantity.k = "num" /\ outcome'.args.price.k = "num")
        /\ outcome'.op = "log_performance"
             => (outcome'.result = "ok") <=> (outcome'.args.value.k = "num")
        /\ (outcome'.result # "ok" \/ outcome'.op \in {"AnalyticsStore", "close"})
             => trades' = trades /\ perf' = perf]_vars

\* The store was reopened on a database that holds two trades and a performance
\* row with its metadata.
C12_Witness ==
    /\ mode = "store" /\ pc = "open"
    /\ outcome.op = "AnalyticsStore"
    /\ Len(trades) = 2 /\ trades[1].id = 1 /\ trades[2].id = 2
    /\ trades[1] # trades[2]
    /\ Len(perf) = 1 /\ perf[1].metadata.k = "json"

\* C13: in IBKRExecutionEngine.run every processed snapshot, executed or
\* blocked by the risk gate, is followed by exactly one ib.sleep(poll_interval)
\* before the next snapshot is pulled.
C13_SleepEveryCycle ==
    [][(mode = "ibkr" /\ Stepped) => sleeps' = sleeps + 1]_vars

\* The rows of the prepared history at or before bar n.
WindowAt(n) == SubSeq(prepared, 1, n)

C15_HoldNeverTrades ==
    /\ \A i \in 1..Len(trades) : trades[i].side \in {"buy", "sell"}
    /\ \A i \in 1..Len(notes) :
         notes[i].kind \in {"paper", "ibkr-order"} => notes[i].side # "hold"
    /\ (signal.side = "hold" /\ polls = 1) => targets = << >> /\ orders = << >>

\* The sequence grew by exactly one element.
GrewByOne(old, new) == Len(new) = Len(old) + 1 /\ SubSeq(new, 1, Len(old)) = old

C17_OneRecordPerOrder ==
    (mode = "backtest" /\ hasAnalytics) =>
        Len(trades) = Cardinality({i \in 1..Len(btOrders) : btOrders[i].fills > 0})

\* A backtest returns its result with this step.
RunReturns == mode = "backtest" /\ pc = "streaming" /\ pc' = "done" /\ outcome'.result = "ok"

\* The rows the step added to the performance table.
NewPerformance == SubSeq(perf', Len(perf) + 1, Len(perf'))

\* The rows of the step with the metric.
WithMetric(metric) == {i \in 1..Len(NewPerformance) : NewPerformance[i].metric = metric}

\* C18: a run that returns, with an analytics store, logs one total_return
\* record, and one sharpe_ratio record exactly when the Sharpe ratio is not
\* None, all with the run_id and completed_at of the result it returns; its
\* run_id is that of no earlier run; without a store, and in every other step,
\* the performance table stays as it was.
C18_PerformancePerRun ==
    [][IF RunReturns
       THEN /\ SubSeq(perf', 1, Len(perf)) = perf
            /\ result'.run_id # result.run_id
            /\ \A j \in 1..Len(perf) : perf[j].run_id # result'.run_id
            /\ IF hasAnalytics
               THEN /\ Cardinality(WithMetric("total_return")) = 1
                    /\ Cardinality(WithMetric("sharpe_ratio")) =
                         (IF result'.sharpe_ratio # None THEN 1 ELSE 0)
                    /\ Len(NewPerformance) =
                         (IF result'.sharpe_ratio # None THEN 2 ELSE 1)
                    /\ \A i \in 1..Len(NewPerformance) :
                         /\ NewPerformance[i].run_id = result'.run_id
                         /\ NewPerformance[i].timestamp = result'.completed_at
               ELSE perf' = perf
       ELSE perf' = perf]_vars

\* Two runs of one engine with a store, the first with a Sharpe ratio and
\* the second without: three rows under two run ids.
C18_Witness ==
    /\ mode = "backtest" /\ pc = "done" /\ hasAnalytics
    /\ runs = 2 /\ Len(perf) = 3
    /\ perf[1].metric = "total_return" /\ perf[2].metric = "sharpe_ratio"
    /\ perf[3].metric = "total_return"
    /\ perf[1].run_id = perf[2].run_id /\ perf[3].run_id # perf[1].run_id
    /\ result.run_id = perf[3].run_id /\ result.sharpe_ratio = None

\* q is the integer nearest to n / d, the even one of the two when n / d lies
\* halfway between them.
Nearest(n, d, q) ==
    /\ Abs(2 * n - 2 * q * d) <= d
    /\ Abs(2 * n - 2 * q * d) = d => q % 2 = 0

\* The target fraction of a signal, in hundredths, within [-1, 1].
Clamped(sig) ==
    LET signed == IF sig.side = "buy" THEN sig.size ELSE 0 - sig.size
    IN  IF signed > FullFraction THEN FullFraction
        ELSE IF signed < 0 - FullFraction THEN 0 - FullFraction
        ELSE signed

\* C19: a call of IBKRExecutionEngine.execute places no order for a hold, for
\* a target share count equal to the position and for a difference that
\* rounds to 0 shares; otherwise it places exactly one market order, BUY
\* exactly when target minus position is positive, for the absolute rounded
\* difference, the target fraction being the signed size clamped to [-1, 1].
C19_AtMostOneOrder ==
    [][(mode = "ibkr" /\ Stepped /\ verdict' = "executed") =>
        LET price == snapshot'[Len(snapshot')].close
            \* target - position = n / d
            n == equity' * Clamped(signal') - position * FullFraction * price
            d == FullFraction * price
        IN  \E q \in -200..200 :
            /\ Nearest(n, d, q)
            /\ IF signal'.side = "hold" \/ n = 0 \/ q = 0
               THEN orders' = orders
               ELSE /\ GrewByOne(orders, orders')
                    /\ orders'[Len(orders')] =
                         MarketOrder(IF n > 0 THEN "BUY" ELSE "SELL", Abs(q))
                    /\ targets'[Len(targets')] = Clamped(signal')]_vars

\* Two calls with the same target of 2.5 shares: the first bought 2 (the tie
\* rounds to the even count), the second found a difference of 0.5 and placed
\* nothing.
C19_Witness ==
    /\ mode = "ibkr" /\ polls = 2 /\ verdict = "executed"
    /\ signal = Signal("buy", 10, "") /\ equity = 100 /\ LastClose(snapshot) = 4
    /\ position = 2
    /\ orders = << MarketOrder("BUY", 2) >>
    /\ Len(targets) = 2

\* C20: whenever IBKRExecutionEngine.run has returned or raised, the IB
\* connection is closed.
C20_DisconnectedAfterRun ==
    (mode = "ibkr" /\ pc = "done") => ~connected

-----------------------------------------------------------------------------
\* Data feeds by source: what a call of build_data_feed gives.

\* An exchange id that names an exchange ccxt supports.
SupportedExchange(exchange_id) ==
    /\ Len(exchange_id) = 1
    /\ exchange_id[1] \in DOMAIN CcxtModule
    /\ CcxtModule[exchange_id[1]] = "exchange"

\* C21: build_data_feed gives a CCXTFeed for the exchange id after the first
\* colon of a "ccxt:" source, a StaticFeed for "static" and ValueError for
\* every other source; a "ccxt:" source whose id is no supported exchange,
\* the empty id included, raises ValueError and returns no feed.
C21_DispatchOnSource ==
    outcome.op = "build_data_feed" =>
        LET source == outcome.args.source
        IN  IF StartsWithCcxt(source)
            THEN IF SupportedExchange(ExchangeId(source))
                 THEN /\ outcome.result = "ok"
                      /\ built = Object("CCXTFeed", [client |-> source[2]])
                 ELSE outcome.result = "ValueError" /\ built = NoObject
            ELSE IF source = << "static" >>
            THEN outcome.result = "ok" /\ built = Object("StaticFeed", EmptyDict)
            ELSE outcome.result = "ValueError" /\ built = NoObject

-----------------------------------------------------------------------------
\* The risk gate of an application built by from_file.

\* from_file has returned an application.
AppBuilt == app # NoApp

\* The limit the configuration file calls for.
ConfiguredLimit ==
    IF file.doc.risk.k = "valid" THEN file.doc.risk.parameters.max_position_size
    ELSE DefaultMaxPositionFraction

\* A loop of the application has just handled a snapshot or a bar that gave a
\* buy or a sell signal.
AppTraded == AppBuilt /\ Stepped /\ signal'.side \in {"buy", "sell"}

\* C22: the application from_file returns has one RiskManager whose limit is
\* the risk section's max_position_size, or 0.1 without a risk section; it is
\* the gate of the execution engine and of the backtest engine, so in a live
\* run and in a backtest alike a buy or sell within the limit goes through
\* and a larger one is blocked: under the defaults, 0.1 passes.
C22_OneRiskGate ==
    /\ [](AppBuilt =>
            /\ app.risk_manager.instance = "from_file"
            /\ app.risk_manager.limits.max_position_fraction = ConfiguredLimit
            /\ ExecutionGate(app.execution_engine) = app.risk_manager
            /\ BacktestGate(app) = app.risk_manager
            /\ hasRisk
            /\ (mode \in {"paper", "ibkr", "backtest"} =>
                    limits = app.risk_manager.limits))
    /\ [][AppTraded =>
            /\ signal'.size <= ConfiguredLimit => verdict' = "executed"
            /\ signal'.size > ConfiguredLimit => verdict' = "blocked"]_vars

\* Without a risk section, a backtest has let a signal of size 0.1 through
\* to the broker.
C22_Witness ==
    /\ AppBuilt /\ file.doc.risk = Absent
    /\ mode = "backtest" /\ polls >= 1
    /\ signal.side = "buy" /\ signal.size = DefaultMaxPositionFraction
    /\ verdict = "executed" /\ Len(targets) >= 1

====
